---- MODULE Spec2Model ----
(***************************************************************************)
(* A model of src/lib/prisma.ts: the template binder (rawQuery), the two   *)
(* pagination wrappers (pagedQuery, pagedRawQuery), the filter compiler    *)
(* (getFilterQuery, getFilterParams, parseFilters) and the date bucketing  *)
(* formats (getDateSQL).                                                   *)
(*                                                                         *)
(* SQL text is a sequence of one-character strings, so that the regular    *)
(* expression of rawQuery is run character by character.  JavaScript       *)
(* objects are functions whose DOMAIN is the set of keys that are present. *)
(***************************************************************************)
EXTENDS Integers, Sequences, FiniteSets, TLC

VARIABLES
    db,          \* what getDatabaseType() returns in this process
    call,        \* the call in progress: its entry point and arguments
    pc,          \* where the call in progress stands
    local,       \* the local constants of the call in progress
    executions,  \* the statements handed to the prisma client, in order
    store,       \* the data store: the number of rows that match the query
    outcome      \* how the call settled

vars == <<db, call, pc, local, executions, store, outcome>>

-----------------------------------------------------------------------------
(* Bounds *)

MaxFrags == 3
MaxPageSize == 2
MaxPage == 3
MaxRows == 2
MaxFilters == 2

-----------------------------------------------------------------------------
(* Dialects (lib/db) *)

POSTGRESQL == "postgresql"
MYSQL == "mysql"
Dialects == {POSTGRESQL, MYSQL, "mongodb"}

-----------------------------------------------------------------------------
(* Settled and unsettled promises *)

Undefined == "undefined"
NoCall == [op |-> "none"]
NoLocal == [size |-> 0]
Pending == [kind |-> "pending"]
Resolved(v) == [kind |-> "resolved", value |-> v]
Rejected(e) == [kind |-> "rejected", error |-> e]
ExecutionErrors == {"ExecutionError"}

-----------------------------------------------------------------------------
(* Characters and text *)

WordChars ==
    {"a", "b", "c", "d", "e", "f", "g", "h", "i", "j", "k", "l", "m", "n", "o",
     "p", "q", "r", "s", "t", "u", "v", "w", "x", "y", "z", "_",
     "0", "1", "2", "3", "4", "5", "6", "7", "8", "9"}
SpaceChars == {" ", "\n", "\t"}

IsWord(c) == c \in WordChars
IsSpace(c) == c \in SpaceChars

RECURSIVE Flatten(_)
Flatten(ss) == IF ss = <<>> THEN <<>> ELSE Head(ss) \o Flatten(Tail(ss))

DigitChars == <<"0", "1", "2", "3", "4", "5", "6", "7", "8", "9">>

\* String(n) of a non-negative integer, as `${n}` renders it.
RECURSIVE NatText(_)
NatText(n) ==
    IF n < 10 THEN <<DigitChars[n + 1]>>
    ELSE NatText(n \div 10) \o <<DigitChars[(n % 10) + 1]>>

NumText(n) == IF n < 0 THEN <<"-">> \o NatText(0 - n) ELSE NatText(n)

-----------------------------------------------------------------------------
(* rawQuery: /\{\{\s*(\w+)(::\w+)?\s*}}/g and its replacement callback *)

At(s, i) == IF i >= 1 /\ i <= Len(s) THEN s[i] ELSE "EOF"

\* The first index at or after i that holds no whitespace (greedy \s*).
RECURSIVE SkipSpace(_, _)
SkipSpace(s, i) == IF IsSpace(At(s, i)) THEN SkipSpace(s, i + 1) ELSE i

\* The first index at or after i that holds no word character (greedy \w+).
RECURSIVE SkipWord(_, _)
SkipWord(s, i) == IF IsWord(At(s, i)) THEN SkipWord(s, i + 1) ELSE i

NoMatch == [ok |-> FALSE, name |-> <<>>, type |-> <<>>, end |-> 0]

\* The tail of the pattern, \s*}} , tried from index r.
CloseAt(s, r) ==
    LET t == SkipSpace(s, r)
    IN  IF At(s, t) = "}" /\ At(s, t + 1) = "}" THEN t + 1 ELSE 0

\* One attempt of the pattern at index i.  The character classes of the
\* pattern are disjoint, so giving back characters of a greedy \s* or \w+
\* never turns a failure into a match; the optional group is tried first
\* with the type hint and then without it, as the regex engine does.
MatchAt(s, i) ==
    IF ~(At(s, i) = "{" /\ At(s, i + 1) = "{") THEN NoMatch
    ELSE
      LET p == SkipSpace(s, i + 2)
          q == SkipWord(s, p)
          r == SkipWord(s, q + 2)
          typed == At(s, q) = ":" /\ At(s, q + 1) = ":" /\ r > q + 2
      IN  IF q = p THEN NoMatch
          ELSE IF typed /\ CloseAt(s, r) > 0
               THEN [ok |-> TRUE, name |-> SubSeq(s, p, q - 1),
                     type |-> SubSeq(s, q, r - 1), end |-> CloseAt(s, r)]
          ELSE IF CloseAt(s, q) > 0
               THEN [ok |-> TRUE, name |-> SubSeq(s, p, q - 1),
                     type |-> <<>>, end |-> CloseAt(s, q)]
          ELSE NoMatch

\* data[name]: undefined when the key is absent.
Lookup(data, name) == IF name \in DOMAIN data THEN data[name] ELSE Undefined

\* The value the callback returns once params holds n entries.
Replacement(dialect, n, type) ==
    IF dialect = MYSQL THEN <<"?">> ELSE <<"$">> \o NumText(n) \o type

\* sql.replaceAll(regex, callback): the scan from index i on, with the text
\* and the params built so far.
RECURSIVE Scan(_, _, _, _, _, _)
Scan(s, i, data, dialect, text, params) ==
    IF i > Len(s) THEN [query |-> text, params |-> params]
    ELSE
      LET m == MatchAt(s, i)
      IN  IF m.ok
          THEN LET ps == Append(params, Lookup(data, m.name))
               IN  Scan(s, m.end + 1, data, dialect,
                        text \o Replacement(dialect, Len(ps), m.type), ps)
          ELSE Scan(s, i + 1, data, dialect, Append(text, s[i]), params)

BindFirstOnly(s, data, dialect) ==
    LET starts == {i \in 1..Len(s) : MatchAt(s, i).ok}
    IN  IF starts = {} THEN [query |-> s, params |-> <<>>]
        ELSE LET i == CHOOSE j \in starts : \A k \in starts : j <= k
                 m == MatchAt(s, i)
             IN  [query |-> SubSeq(s, 1, i - 1) \o Replacement(dialect, 1, m.type)
                                \o SubSeq(s, m.end + 1, Len(s)),
                  params |-> <<Lookup(data, m.name)>>]

Bind(s, data, dialect) == Scan(s, 1, data, dialect, <<>>, <<>>)

SupportedAll(dialect) == TRUE

\* if (db !== POSTGRESQL && db !== MYSQL) return Promise.reject(...)
Supported(dialect) == ~(dialect # POSTGRESQL /\ dialect # MYSQL)

\* What the caller of rawQuery gets: the promise of prisma.rawQuery itself.
RawQueryReturn(settled) == settled

RawQueryExecution(query, params) ==
    [api |-> "rawQuery", query |-> query, params |-> params, result |-> Pending,
     matching |-> 0]

-----------------------------------------------------------------------------
(* The inputs of rawQuery *)

Fragments ==
    { <<"{", "{", "a", "}", "}">>,
      <<"{", "{", "b", ":", ":", "t", "}", "}">>,
      <<"{", "{", " ">>,
      <<" ", "}", "}">>,
      <<"{", "{">>,
      <<"}", "}">>,
      <<"a">>,
      <<":", ":", "t">>,
      <<":">>,
      <<"=">> }

RECURSIVE FragmentSeqs(_)
FragmentSeqs(n) ==
    IF n = 0 THEN {<<>>}
    ELSE LET shorter == FragmentSeqs(n - 1)
         IN  shorter \cup {Append(fs, f) : fs \in shorter, f \in Fragments}

Templates == {Flatten(fs) : fs \in FragmentSeqs(MaxFrags)}

NameA == <<"a">>
NameB == <<"b">>

ParamMaps ==
    { [n \in {} |-> "v"],
      [n \in {NameA} |-> "5"],
      [n \in {NameA, NameB} |-> IF n = NameA THEN "5" ELSE "x"] }

-----------------------------------------------------------------------------
(* rawQuery *)

InitIdle ==
    /\ db \in Dialects
    /\ call = NoCall
    /\ pc = "idle"
    /\ local = NoLocal
    /\ executions = <<>>
    /\ store = 0
    /\ outcome = Pending

\* rawQuery(sql, data), up to its return: the body holds no await.
RawQuery(sql, data) ==
    /\ pc = "idle"
    /\ call' = [op |-> "rawQuery", sql |-> sql, data |-> data]
    /\ \/ /\ ~Supported(db)
          /\ outcome' = Rejected("Unknown database.")
          /\ pc' = "done"
          /\ UNCHANGED executions
       \/ /\ Supported(db)
          /\ LET b == Bind(sql, data, db)
             IN  executions' = Append(executions, RawQueryExecution(b.query, b.params))
          /\ pc' = "awaiting"
          /\ UNCHANGED outcome
    /\ UNCHANGED <<db, local, store>>

\* The prisma client settles the statement; rawQuery's promise follows it.
RawQuerySettle ==
    /\ pc = "awaiting"
    /\ call.op = "rawQuery"
    /\ \E r \in {Resolved(<<"row">>)} \cup {Rejected(e) : e \in ExecutionErrors} :
          /\ executions' = [executions EXCEPT ![Len(executions)].result = r]
          /\ outcome' = RawQueryReturn(r)
    /\ pc' = "done"
    /\ UNCHANGED <<db, call, local, store>>

NextBind ==
    \/ /\ pc = "idle"
       /\ \E sql \in Templates, data \in ParamMaps : RawQuery(sql, data)
    \/ RawQuerySettle

SpecBind == InitIdle /\ [][NextBind]_vars

-----------------------------------------------------------------------------
(* The placeholders of a template, stated without the scan *)

\* The places where {{ opens and where }} closes.
Opens(s) == {i \in 1..Len(s) : At(s, i) = "{" /\ At(s, i + 1) = "{"}
Closes(s) == {j \in 1..Len(s) : At(s, j - 1) = "}" /\ At(s, j) = "}"}

AllSpace(s, from, to) == \A k \in from..to : IsSpace(s[k])
AllWord(s, from, to) == \A k \in from..to : IsWord(s[k])

\* s[i..j] is {{ spaces name spaces }} or {{ spaces name::type spaces }},
\* with the name at n1..n2 and the type hint (with its ::) at n2+1..t2.
IsPlaceholder(s, i, j, n1, n2, t2) ==
    /\ i + 2 <= n1 /\ n1 <= n2 /\ n2 <= t2 /\ t2 <= j - 2
    /\ AllSpace(s, i + 2, n1 - 1)
    /\ AllWord(s, n1, n2)
    /\ \/ t2 = n2
       \/ /\ t2 >= n2 + 3
          /\ s[n2 + 1] = ":" /\ s[n2 + 2] = ":"
          /\ AllWord(s, n2 + 3, t2)
    /\ AllSpace(s, t2 + 1, j - 2)

Placeholders(s) ==
    UNION { UNION { UNION { UNION {
        { [start |-> i, end |-> j, name |-> SubSeq(s, n1, n2),
           type |-> SubSeq(s, n2 + 1, t2)] :
            t2 \in {t \in n2..(j - 2) : IsPlaceholder(s, i, j, n1, n2, t)} }
        : n2 \in {n \in n1..(j - 2) : IsWord(s[n]) /\ ~IsWord(At(s, n + 1))} }
        : n1 \in {n \in (i + 2)..(j - 2) : IsWord(s[n]) /\ ~IsWord(At(s, n - 1))} }
        : j \in {c \in Closes(s) : c >= i + 4} }
        : i \in Opens(s) }

\* The rank of placeholder o among the placeholders of ps, left to right.
Rank(ps, o) == Cardinality({x \in ps : x.start <= o.start})
Nth(ps, k) == CHOOSE o \in ps : Rank(ps, o) = k

ExpectedParams(s, data) ==
    LET ps == Placeholders(s)
    IN  [k \in 1..Cardinality(ps) |-> Lookup(data, Nth(ps, k).name)]

ExpectedMarker(dialect, k, type) ==
    CASE dialect = MYSQL -> <<"?">>
      [] dialect = POSTGRESQL -> <<"$">> \o NumText(k) \o type

ExpectedQuery(s, dialect) ==
    LET ps == Placeholders(s)
    IN  Flatten([i \in 1..Len(s) |->
            IF \E o \in ps : o.start = i
            THEN LET o == CHOOSE x \in ps : x.start = i
                 IN  ExpectedMarker(dialect, Rank(ps, o), o.type)
            ELSE IF \E o \in ps : o.start < i /\ i <= o.end
            THEN <<>>
            ELSE <<s[i]>>])

\* C1: on a supported dialect the statement handed to prisma.rawQuery is the
\* template with its k-th placeholder, left to right and counting duplicates,
\* replaced by ? (MySQL) or by $k and the type hint (PostgreSQL), all other
\* text kept, and the k-th positional parameter is data[name of the k-th
\* placeholder], undefined when the name is absent.
C1_BindsEveryOccurrence ==
    (call.op = "rawQuery" /\ db \in {POSTGRESQL, MYSQL}) =>
        /\ Len(executions) = 1
        /\ executions[1].params = ExpectedParams(call.sql, call.data)
        /\ executions[1].query = ExpectedQuery(call.sql, db)

\* {{a}}{{b::t}}{{a}} with only a bound, on PostgreSQL: a duplicate, a type
\* hint and an absent name.
C1_Witness ==
    /\ call.op = "rawQuery"
    /\ db = POSTGRESQL
    /\ call.sql = <<"{", "{", "a", "}", "}", "{", "{", "b", ":", ":", "t", "}", "}",
                    "{", "{", "a", "}", "}">>
    /\ call.data = [n \in {NameA} |-> "5"]
    /\ executions[1].query = <<"$", "1", "$", "2", ":", ":", "t", "$", "3">>
    /\ executions[1].params = <<"5", Undefined, "5">>

\* C5: on a dialect that is neither PostgreSQL nor MySQL rawQuery rejects and
\* prisma.rawQuery is never invoked; on a supported dialect it is invoked
\* exactly once and the caller gets its result, an error included, unchanged.
C5_RejectsUnknownDialect ==
    call.op = "rawQuery" =>
        IF db \in {POSTGRESQL, MYSQL}
        THEN /\ Len(executions) = 1
             /\ pc = "done" => outcome = executions[1].result
             /\ pc = "awaiting" => outcome = Pending
        ELSE /\ executions = <<>>
             /\ pc = "done"
             /\ outcome.kind = "rejected"
             /\ outcome.error = "Unknown database."

C5_Witness ==
    /\ call.op = "rawQuery"
    /\ db \notin {POSTGRESQL, MYSQL}
    /\ Len(call.sql) > 0
    /\ outcome.kind = "rejected"
    /\ executions = <<>>

-----------------------------------------------------------------------------
(* Objects *)

EmptyObject == [k \in {} |-> 0]

\* { ...a, ...b }
Spread(a, b) ==
    [k \in DOMAIN a \cup DOMAIN b |-> IF k \in DOMAIN b THEN b[k] ELSE a[k]]

Has(obj, key) == key \in DOMAIN obj

-----------------------------------------------------------------------------
(* The page parameters, shared by pagedQuery and pagedRawQuery *)

DEFAULT_PAGE_SIZE == 10

\* const { page = 1 } = pageParams
PageOf(pageParams) == IF Has(pageParams, "page") THEN pageParams["page"] ELSE 1

SizeOfNoDefault(pageParams) ==
    IF Has(pageParams, "pageSize") THEN pageParams["pageSize"] ELSE 0

\* const size = +pageSize || DEFAULT_PAGE_SIZE : NaN (absent) and 0 are falsy
SizeOf(pageParams) ==
    IF Has(pageParams, "pageSize") /\ pageParams["pageSize"] # 0
    THEN pageParams["pageSize"]
    ELSE DEFAULT_PAGE_SIZE

\* orderBy && ... : absent and the empty string are falsy
OrderByOf(pageParams) ==
    IF Has(pageParams, "orderBy") THEN pageParams["orderBy"] ELSE <<>>

\* const { sortDescending = false } = pageParams
SortDescendingOf(pageParams) ==
    IF Has(pageParams, "sortDescending") THEN pageParams["sortDescending"] ELSE FALSE

DirectionOf(pageParams) == IF SortDescendingOf(pageParams) THEN "desc" ELSE "asc"

\* An absent orderBy, among texts.
UndefinedText == <<Undefined>>

EnvelopeSupplied(data, count, pageParams) ==
    [data |-> data, count |-> count, page |-> PageOf(pageParams),
     pageSize |-> IF Has(pageParams, "pageSize") THEN pageParams["pageSize"] ELSE 0,
     orderBy |-> IF Has(pageParams, "orderBy") THEN pageParams["orderBy"]
                 ELSE UndefinedText]

\* { data, count, page: +page, pageSize: size, orderBy }
Envelope(data, count, pageParams) ==
    [data |-> data, count |-> count, page |-> PageOf(pageParams),
     pageSize |-> SizeOf(pageParams),
     orderBy |-> IF Has(pageParams, "orderBy") THEN pageParams["orderBy"]
                 ELSE UndefinedText]

-----------------------------------------------------------------------------
(* pagedQuery *)

\* The argument of findMany.
FindManyArgs(criteria, pageParams) ==
    LET size == SizeOf(pageParams)
        orderBy == OrderByOf(pageParams)
        paging == IF size > 0
                  THEN [take |-> size, skip |-> size * (PageOf(pageParams) - 1)]
                  ELSE EmptyObject
        ordering == IF orderBy # <<>>
                    THEN [orderBy |-> <<[k \in {orderBy} |-> DirectionOf(pageParams)]>>]
                    ELSE EmptyObject
    IN  Spread(criteria, Spread(paging, ordering))

ModelExecution(api, model, args) ==
    [api |-> api, model |-> model, args |-> args, result |-> Pending, matching |-> 0]

\* pagedQuery(model, criteria, pageParams), up to its first await.
PagedQuery(model, criteria, pageParams) ==
    /\ pc = "idle"
    /\ call' = [op |-> "pagedQuery", model |-> model, criteria |-> criteria,
                pageParams |-> pageParams]
    /\ executions' = Append(executions,
                            ModelExecution("findMany", model,
                                           FindManyArgs(criteria, pageParams)))
    /\ pc' = "awaitFindMany"
    /\ UNCHANGED <<db, local, store, outcome>>

\* findMany settles; on success pagedQuery goes on to count({ where }).
FindManySettle ==
    /\ pc = "awaitFindMany"
    /\ \/ \E e \in ExecutionErrors :
             /\ executions' = [executions EXCEPT ![1].result = Rejected(e)]
             /\ outcome' = Rejected(e)
             /\ pc' = "done"
             /\ UNCHANGED local
       \/ /\ executions' =
                Append([executions EXCEPT ![1].result = Resolved(<<"rows">>),
                                          ![1].matching = store],
                       ModelExecution("count", call.model,
                                      [where |-> call.criteria["where"]]))
          /\ local' = [data |-> <<"rows">>]
          /\ pc' = "awaitModelCount"
          /\ UNCHANGED outcome
    /\ UNCHANGED <<db, call, store>>

\* count settles; on success pagedQuery returns the envelope.
ModelCountSettle ==
    /\ pc = "awaitModelCount"
    /\ \/ \E e \in ExecutionErrors :
             /\ executions' = [executions EXCEPT ![2].result = Rejected(e)]
             /\ outcome' = Rejected(e)
       \/ /\ executions' = [executions EXCEPT ![2].result = Resolved(store),
                                              ![2].matching = store]
          /\ outcome' = Resolved(Envelope(local.data, store, call.pageParams))
    /\ pc' = "done"
    /\ UNCHANGED <<db, call, local, store>>

-----------------------------------------------------------------------------
(* pagedRawQuery *)

SelectCountOpen ==
    <<"s", "e", "l", "e", "c", "t", " ", "c", "o", "u", "n", "t", "(", "*", ")",
      " ", "a", "s", " ", "n", "u", "m", " ", "f", "r", "o", "m", " ", "(">>
SelectCountClose == <<")", " ", "t">>
OrderByText == <<"o", "r", "d", "e", "r", " ", "b", "y", " ">>
AscText == <<"a", "s", "c">>
DescText == <<"d", "e", "s", "c">>
LimitText == <<"l", "i", "m", "i", "t", " ">>
OffsetText == <<" ", "o", "f", "f", "s", "e", "t", " ">>
NewLine == <<"\n">>

\* `order by ${orderBy} ${direction}`
OrderClause(pageParams) ==
    OrderByText \o OrderByOf(pageParams) \o <<" ">>
        \o (IF DirectionOf(pageParams) = "desc" THEN DescText ELSE AscText)

OffsetOfPage(pageParams) == SizeOf(pageParams) * PageOf(pageParams)

\* const offset = +size * (page - 1)
OffsetOf(pageParams) == SizeOf(pageParams) * (PageOf(pageParams) - 1)

\* `limit ${+size} offset ${offset}`
LimitClause(pageParams) ==
    LimitText \o NumText(SizeOf(pageParams)) \o OffsetText
        \o NumText(OffsetOf(pageParams))

\* [orderBy && ..., +size > 0 && ...].filter(n => n).join('\n')
Statements(pageParams) ==
    LET order == OrderByOf(pageParams) # <<>>
        limit == SizeOf(pageParams) > 0
    IN  (IF order THEN OrderClause(pageParams) ELSE <<>>)
            \o (IF order /\ limit THEN NewLine ELSE <<>>)
            \o (IF limit THEN LimitClause(pageParams) ELSE <<>>)

\* `select count(*) as num from (${query}) t`
CountSql(query) == SelectCountOpen \o query \o SelectCountClose

\* `${query}${statements}`
DataSql(query, pageParams) == query \o Statements(pageParams)

ExecutionsAfterCountAlways(settledLog, settled, dataExecution) ==
    Append(settledLog, dataExecution)

\* The statements sent once the count query has settled: a rejection is
\* thrown by the await, and the data query is issued only past it.
ExecutionsAfterCount(settledLog, settled, dataExecution) ==
    IF settled.kind = "rejected" THEN settledLog
    ELSE Append(settledLog, dataExecution)

\* pagedRawQuery(query, queryParams, pageParams), up to its first await: the
\* count query goes through rawQuery.
PagedRawQuery(query, queryParams, pageParams) ==
    /\ pc = "idle"
    /\ call' = [op |-> "pagedRawQuery", query |-> query,
                queryParams |-> queryParams, pageParams |-> pageParams]
    /\ \/ /\ ~Supported(db)
          /\ outcome' = Rejected("Unknown database.")
          /\ pc' = "done"
          /\ UNCHANGED executions
       \/ /\ Supported(db)
          /\ LET b == Bind(CountSql(query), queryParams, db)
             IN  executions' = Append(executions, RawQueryExecution(b.query, b.params))
          /\ pc' = "awaitCount"
          /\ UNCHANGED outcome
    /\ UNCHANGED <<db, local, store>>

\* The count query settles.  res[0].num becomes count and the data query is
\* issued through rawQuery, or the rejection is thrown to the caller.
CountSettle ==
    /\ pc = "awaitCount"
    /\ \E r \in {Rejected(e) : e \in ExecutionErrors}
                  \cup {Resolved(<<[num |-> store]>>)} :
          LET n == Len(executions)
              settledLog == [executions EXCEPT ![n].result = r,
                                               ![n].matching = store]
              b == Bind(DataSql(call.query, call.pageParams), call.queryParams, db)
          IN  /\ executions' = ExecutionsAfterCount(settledLog, r,
                                    RawQueryExecution(b.query, b.params))
              /\ IF r.kind = "rejected"
                 THEN /\ outcome' = RawQueryReturn(r)
                      /\ pc' = "done"
                      /\ UNCHANGED local
                 ELSE /\ local' = [count |-> RawQueryReturn(r).value[1].num]
                      /\ pc' = "awaitData"
                      /\ UNCHANGED outcome
    /\ UNCHANGED <<db, call, store>>

\* The data query settles; pagedRawQuery returns the envelope or throws.
DataSettle ==
    /\ pc = "awaitData"
    /\ LET n == Len(executions)
       IN
       \/ \E e \in ExecutionErrors :
             /\ executions' = [executions EXCEPT ![n].result = Rejected(e),
                                                 ![n].matching = store]
             /\ outcome' = RawQueryReturn(Rejected(e))
       \/ /\ executions' = [executions EXCEPT ![n].result = Resolved(<<"rows">>),
                                              ![n].matching = store]
          /\ outcome' = Resolved(Envelope(RawQueryReturn(Resolved(<<"rows">>)).value,
                                          local.count, call.pageParams))
    /\ pc' = "done"
    /\ UNCHANGED <<db, call, local, store>>

\* Another client of the data store inserts or deletes a matching row while
\* a statement of the call is in flight.
Write ==
    /\ pc \in {"awaitCount", "awaitData", "awaitFindMany", "awaitModelCount"}
    /\ \E n \in {store - 1, store + 1} :
          /\ n \in 0..MaxRows
          /\ store' = n
    /\ UNCHANGED <<db, call, pc, local, executions, outcome>>

-----------------------------------------------------------------------------
(* The inputs of the pagination wrappers *)

PageSizes == {-1} \cup (0..MaxPageSize) \cup {DEFAULT_PAGE_SIZE}

OrderColumn == <<"i", "d">>

PageParamsSet ==
    { Spread(Spread(p, z), Spread(o, d)) :
        p \in {EmptyObject} \cup {[page |-> n] : n \in 1..MaxPage},
        z \in {EmptyObject} \cup {[pageSize |-> n] : n \in PageSizes},
        o \in {EmptyObject, [orderBy |-> OrderColumn], [orderBy |-> <<>>]},
        d \in {EmptyObject, [sortDescending |-> TRUE], [sortDescending |-> FALSE]} }

Criteria == {[where |-> "w"], [where |-> "w", take |-> 99, skip |-> 99]}

RawQueries == { <<"q">>, <<"q", " ", "{", "{", "a", "}", "}">> }

InitPage ==
    /\ db \in Dialects
    /\ call = NoCall
    /\ pc = "idle"
    /\ local = NoLocal
    /\ executions = <<>>
    /\ store \in 0..MaxRows
    /\ outcome = Pending

NextPage ==
    \/ /\ pc = "idle"
       /\ \E c \in Criteria, pp \in PageParamsSet : PagedQuery("website", c, pp)
    \/ FindManySettle
    \/ ModelCountSettle
    \/ /\ pc = "idle"
       /\ \E q \in RawQueries, pp \in PageParamsSet :
             PagedRawQuery(q, [n \in {NameA} |-> "5"], pp)
    \/ CountSettle
    \/ DataSettle
    \/ Write

SpecPage == InitPage /\ [][NextPage]_vars

-----------------------------------------------------------------------------
(* What the pagination claims speak of *)

IsPagedQuery == call.op = "pagedQuery"
IsPagedRawQuery == call.op = "pagedRawQuery"

\* pageSize is 0 or absent.
NoPageSize == ~Has(call.pageParams, "pageSize") \/ call.pageParams["pageSize"] = 0

\* The data query of pagedRawQuery has been issued.
DataIssued == IsPagedRawQuery /\ Len(executions) >= 2

\* The caller's query as the binder renders it for this dialect.
BoundQuery == Bind(call.query, call.queryParams, db).query

EndsWith(text, suffix) ==
    /\ Len(text) >= Len(suffix)
    /\ SubSeq(text, Len(text) - Len(suffix) + 1, Len(text)) = suffix

Contains(text, part) ==
    \E i \in 1..(Len(text) - Len(part) + 1) : SubSeq(text, i, i + Len(part) - 1) = part

LimitOffsetText(limit, offset) ==
    LimitText \o NumText(limit) \o OffsetText \o NumText(offset)

\* The count the call returned is the number of rows that matched when the
\* counting statement ran.
CountIsTotal ==
    outcome.kind = "resolved" =>
        /\ IsPagedQuery => outcome.value.count = executions[2].matching
        /\ IsPagedRawQuery => outcome.value.count = executions[1].matching

SuppliedPage == IF Has(call.pageParams, "page") THEN call.pageParams["page"] ELSE 1

SuppliedOrderBy ==
    IF Has(call.pageParams, "orderBy") THEN call.pageParams["orderBy"]
    ELSE UndefinedText

ExpectedDirection ==
    IF Has(call.pageParams, "sortDescending") /\ call.pageParams["sortDescending"]
    THEN DescText ELSE AscText

OrderSupplied == Has(call.pageParams, "orderBy") /\ call.pageParams["orderBy"] # <<>>

ExpectedOrderLine ==
    IF OrderSupplied
    THEN OrderByText \o call.pageParams["orderBy"] \o <<" ">> \o ExpectedDirection
             \o NewLine
    ELSE <<>>

\* C4: with pageSize > 0 (page >= 1, or absent and then 1) findMany gets take
\* = pageSize and skip = pageSize * (page - 1), and the data query of
\* pagedRawQuery is the caller's query followed by the order by clause, if
\* orderBy is supplied, and limit <pageSize> offset <pageSize * (page - 1)>;
\* the ordering is there only for a supplied orderBy, desc iff sortDescending.
\* pageSize 10, page 3 gives take 10, skip 20 and limit 10 offset 20.
C4_LimitOffsetFromPage ==
    ((IsPagedQuery \/ IsPagedRawQuery) /\ Has(call.pageParams, "pageSize")
        /\ call.pageParams["pageSize"] > 0) =>
        LET size == call.pageParams["pageSize"]
            page == SuppliedPage
        IN  /\ IsPagedQuery =>
                  /\ executions[1].api = "findMany"
                  /\ Has(executions[1].args, "take") /\ Has(executions[1].args, "skip")
                  /\ executions[1].args["take"] = size
                  /\ executions[1].args["skip"] = size * (page - 1)
                  /\ Has(executions[1].args, "orderBy") <=> OrderSupplied
                  /\ OrderSupplied =>
                        executions[1].args["orderBy"] =
                            <<[k \in {call.pageParams["orderBy"]} |->
                                  IF ExpectedDirection = DescText THEN "desc" ELSE "asc"]>>
                  /\ (size = 10 /\ page = 3) =>
                        (executions[1].args["take"] = 10 /\ executions[1].args["skip"] = 20)
            /\ DataIssued =>
                  /\ executions[2].query =
                        BoundQuery \o ExpectedOrderLine
                            \o LimitOffsetText(size, size * (page - 1))
                  /\ (size = 10 /\ page = 3) =>
                        EndsWith(executions[2].query,
                                 <<"l", "i", "m", "i", "t", " ", "1", "0", " ",
                                   "o", "f", "f", "s", "e", "t", " ", "2", "0">>)

\* pagedRawQuery of q with pageSize 10, page 3, orderBy id, descending.
C4_Witness ==
    /\ IsPagedRawQuery
    /\ call.query = <<"q">>
    /\ Has(call.pageParams, "pageSize") /\ call.pageParams["pageSize"] = 10
    /\ Has(call.pageParams, "page") /\ call.pageParams["page"] = 3
    /\ OrderSupplied
    /\ Has(call.pageParams, "sortDescending") /\ call.pageParams["sortDescending"]
    /\ Len(executions) = 2
    /\ executions[2].query =
          <<"q", "o", "r", "d", "e", "r", " ", "b", "y", " ", "i", "d", " ",
            "d", "e", "s", "c", "\n", "l", "i", "m", "i", "t", " ", "1", "0", " ",
            "o", "f", "f", "s", "e", "t", " ", "2", "0">>

\* C10: the statements pagedRawQuery sends are a prefix of <<count query,
\* data query>>: the count query, select count(*) as num from (<query>) t,
\* goes first and has resolved before the data query is sent, neither is sent
\* twice, a rejected statement is the last one sent and its rejection is what
\* the caller gets, and on an unsupported dialect nothing is sent.  The
\* returned count is the one the count query saw.
C10_CountThenDataOnce ==
    IsPagedRawQuery =>
        /\ Len(executions) <= 2
        /\ db \notin {POSTGRESQL, MYSQL} => executions = <<>>
        /\ Len(executions) >= 1 =>
              executions[1].query = SelectCountOpen \o BoundQuery \o SelectCountClose
        /\ Len(executions) = 2 =>
              /\ executions[1].result.kind = "resolved"
              /\ executions[2].query # executions[1].query
              /\ SubSeq(executions[2].query, 1, Len(BoundQuery)) = BoundQuery
        /\ \A k \in 1..Len(executions) :
              /\ executions[k].api = "rawQuery"
              /\ executions[k].result.kind = "rejected" =>
                    /\ k = Len(executions)
                    /\ pc = "done"
                    /\ outcome = executions[k].result
        /\ (pc = "done" /\ outcome.kind = "resolved") =>
              /\ Len(executions) = 2
              /\ executions[2].result.kind = "resolved"
              /\ outcome.value.count = executions[1].matching

\* A write between the two round trips: the returned count is not the number
\* of rows the data query saw.
C10_Witness ==
    /\ IsPagedRawQuery
    /\ pc = "done"
    /\ outcome.kind = "resolved"
    /\ executions[1].result.kind = "resolved"
    /\ executions[2].result.kind = "resolved"
    /\ outcome.value.count # executions[2].matching

-----------------------------------------------------------------------------
(* The filter compiler: mapFilter, getFilterQuery, getDateQuery,
   getFilterParams, parseFilters *)

\* OPERATORS and SESSION_COLUMNS of ./constants.
OPERATORS ==
    [equals |-> "eq", notEquals |-> "neq", contains |-> "c", doesNotContain |-> "dnc"]
SESSION_COLUMNS ==
    {"browser", "os", "device", "screen", "language", "country", "region", "city"}

\* Dates are <<t>> for the instant t and <<>> when absent.
NoDate == <<>>

\* maxDate of ./date: the later of the dates that are present.
MaxDate(a, b) ==
    IF a = NoDate THEN b
    ELSE IF b = NoDate THEN a
    ELSE IF a[1] >= b[1] THEN a ELSE b

\* The entity lookup behind fetchWebsite of ./load.
Websites ==
    [w \in {"w1", "w2"} |->
        IF w = "w1" THEN [domain |-> "example.com", resetAt |-> <<2>>]
        ELSE [domain |-> "site.org", resetAt |-> NoDate]]

FetchWebsite(websiteId) ==
    IF websiteId \in DOMAIN Websites THEN Resolved(Websites[websiteId])
    ELSE Rejected("NotFound")

NoColumn == ""

\* filtersToArray of ./params: one {name, column, operator, value} for each
\* key of the filters, in key order; the column is absent for a key that
\* maps to no column, as startDate and endDate do.
FiltersToArray(filters) ==
    (IF filters.startDate # NoDate
     THEN <<[name |-> "startDate", column |-> NoColumn,
             operator |-> OPERATORS.equals, value |-> filters.startDate]>>
     ELSE <<>>)
    \o (IF filters.endDate # NoDate
        THEN <<[name |-> "endDate", column |-> NoColumn,
                operator |-> OPERATORS.equals, value |-> filters.endDate]>>
        ELSE <<>>)
    \o filters.specs

\* mapFilter(column, operator, name), type left at its default ''
MapFilter(column, operator, name) ==
    LET like == IF db = POSTGRESQL THEN "ilike" ELSE "like"
        value == "{{" \o name \o "}}"
    IN  CASE operator = OPERATORS.equals -> column \o " = " \o value
          [] operator = OPERATORS.notEquals -> column \o " != " \o value
          [] operator = OPERATORS.contains -> column \o " " \o like \o " " \o value
          [] operator = OPERATORS.doesNotContain ->
                column \o " not " \o like \o " " \o value
          [] OTHER -> ""

SelfReferrerLine ==
    "and (website_event.referrer_domain != {{websiteDomain}} or website_event.referrer_domain is null)"

FilterLinesNoReferrer(f) ==
    IF f.column # NoColumn
    THEN <<"and " \o MapFilter(f.column, f.operator, f.name)>>
    ELSE <<>>

\* What one filter pushes on the array of getFilterQuery.
FilterLines(f) ==
    IF f.column # NoColumn
    THEN <<"and " \o MapFilter(f.column, f.operator, f.name)>>
             \o (IF f.name = "referrer" THEN <<SelfReferrerLine>> ELSE <<>>)
    ELSE <<>>

RECURSIVE JoinLines(_)
JoinLines(lines) ==
    IF lines = <<>> THEN ""
    ELSE IF Len(lines) = 1 THEN lines[1]
    ELSE lines[1] \o "\n" \o JoinLines(Tail(lines))

RECURSIVE ReduceLines(_)
ReduceLines(fs) ==
    IF fs = <<>> THEN <<>> ELSE FilterLines(Head(fs)) \o ReduceLines(Tail(fs))

\* getFilterQuery(filters, options)
GetFilterQuery(filters) == JoinLines(ReduceLines(FiltersToArray(filters)))

\* getDateQuery(filters)
GetDateQuery(filters) ==
    IF filters.startDate # NoDate
    THEN IF filters.endDate # NoDate
         THEN "and website_event.created_at between {{startDate}} and {{endDate}}"
         ELSE "and website_event.created_at >= {{startDate}}"
    ELSE ""

\* The value one filter binds under its name.
FilterParam(f) ==
    IF f.operator \in {OPERATORS.contains, OPERATORS.doesNotContain}
    THEN "%" \o f.value \o "%"
    ELSE f.value

\* getFilterParams(filters): a later filter of the same name wins.
RECURSIVE GetFilterParamsOf(_)
GetFilterParamsOf(fs) ==
    IF fs = <<>> THEN EmptyObject
    ELSE Spread([k \in {Head(fs).name} |-> FilterParam(Head(fs))],
                GetFilterParamsOf(Tail(fs)))

GetFilterParams(filters) == GetFilterParamsOf(FiltersToArray(filters))

\* Object.keys(filters).find(key => SESSION_COLUMNS.includes(key))
HasSessionKey(filters) ==
    \E k \in 1..Len(filters.specs) : filters.specs[k].name \in SESSION_COLUMNS

JoinSessionOf(filters, options) ==
    IF (Has(options, "joinSession") /\ options["joinSession"]) \/ HasSessionKey(filters)
    THEN "inner join session on website_event.session_id = session.session_id"
    ELSE ""

ParamsFiltersLast(websiteId, filters, website) ==
    Spread([websiteId |-> websiteId,
            startDate |-> MaxDate(filters.startDate, website.resetAt),
            websiteDomain |-> website.domain],
           GetFilterParams(filters))

\* { ...getFilterParams(filters), websiteId, startDate: maxDate(...),
\*   websiteDomain: website.domain }
Params(websiteId, filters, website) ==
    Spread(GetFilterParams(filters),
           [websiteId |-> websiteId,
            startDate |-> MaxDate(filters.startDate, website.resetAt),
            websiteDomain |-> website.domain])

\* The object parseFilters returns for a website that was found.
ParseFiltersResult(websiteId, filters, options, website) ==
    [joinSession |-> JoinSessionOf(filters, options),
     filterQuery |-> GetFilterQuery(filters),
     dateQuery |-> GetDateQuery(filters),
     params |-> Params(websiteId, filters, website)]

EmptyResult ==
    [joinSession |-> "", filterQuery |-> "", dateQuery |-> "", params |-> EmptyObject]

ParseFiltersSettledLenient(websiteId, filters, options, lookup) ==
    IF lookup.kind = "rejected" THEN Resolved(EmptyResult)
    ELSE Resolved(ParseFiltersResult(websiteId, filters, options, lookup.value))

\* parseFilters past await fetchWebsite(websiteId): a rejected lookup is
\* thrown on to the caller.
ParseFiltersSettled(websiteId, filters, options, lookup) ==
    IF lookup.kind = "rejected" THEN lookup
    ELSE Resolved(ParseFiltersResult(websiteId, filters, options, lookup.value))

\* parseFilters(websiteId, filters, options), up to await fetchWebsite.
ParseFilters(websiteId, filters, options) ==
    /\ pc = "idle"
    /\ call' = [op |-> "parseFilters", websiteId |-> websiteId, filters |-> filters,
                options |-> options]
    /\ pc' = "awaitWebsite"
    /\ UNCHANGED <<db, local, executions, store, outcome>>

\* The lookup settles and parseFilters returns or throws.
WebsiteSettle ==
    /\ pc = "awaitWebsite"
    /\ outcome' = ParseFiltersSettled(call.websiteId, call.filters, call.options,
                                      FetchWebsite(call.websiteId))
    /\ pc' = "done"
    /\ UNCHANGED <<db, call, local, executions, store>>

-----------------------------------------------------------------------------
(* The inputs of parseFilters *)

FilterColumns ==
    [n \in {"referrer", "url", "browser"} |->
        CASE n = "referrer" -> "referrer_domain"
          [] n = "url" -> "url_path"
          [] n = "browser" -> "browser"]

OperatorSet == {OPERATORS.equals, OPERATORS.notEquals, OPERATORS.contains,
                OPERATORS.doesNotContain}

FilterSpecs ==
    { [name |-> n, column |-> c, operator |-> o, value |-> "x"] :
        n \in DOMAIN FilterColumns, c \in {NoColumn, "referrer_domain", "url_path", "browser"},
        o \in OperatorSet }

ValidSpecs == {f \in FilterSpecs : f.column \in {NoColumn, FilterColumns[f.name]}}

RECURSIVE SpecSeqs(_)
SpecSeqs(n) ==
    IF n = 0 THEN {<<>>}
    ELSE LET shorter == SpecSeqs(n - 1)
         IN  shorter \cup
             { Append(fs, f) : fs \in shorter, f \in ValidSpecs }

DistinctNames(fs) ==
    \A i, j \in 1..Len(fs) : i # j => fs[i].name # fs[j].name

FilterSets ==
    { [specs |-> fs, startDate |-> sd, endDate |-> ed] :
        fs \in {x \in SpecSeqs(MaxFilters) : DistinctNames(x)},
        sd \in {NoDate, <<1>>, <<3>>},
        ed \in {NoDate, <<4>>} }

OptionSets == {EmptyObject, [joinSession |-> TRUE]}

NextFilter ==
    \/ /\ pc = "idle"
       /\ \E w \in {"w1", "w2", "gone"}, f \in FilterSets, o \in OptionSets :
             ParseFilters(w, f, o)
    \/ WebsiteSettle

SpecFilter == InitIdle /\ [][NextFilter]_vars

-----------------------------------------------------------------------------
(* What the filter compiler claims speak of *)

ParseFiltersReturned == call.op = "parseFilters" /\ outcome.kind = "resolved"

LikeWord == IF db = POSTGRESQL THEN "ilike" ELSE "like"

\* The operator table of the claim.
ExpectedPredicate(f) ==
    CASE f.operator = OPERATORS.equals ->
            f.column \o " = {{" \o f.name \o "}}"
      [] f.operator = OPERATORS.notEquals ->
            f.column \o " != {{" \o f.name \o "}}"
      [] f.operator = OPERATORS.contains ->
            f.column \o " " \o LikeWord \o " {{" \o f.name \o "}}"
      [] f.operator = OPERATORS.doesNotContain ->
            f.column \o " not " \o LikeWord \o " {{" \o f.name \o "}}"

ExpectedLines(f) ==
    IF f.column = NoColumn THEN <<>>
    ELSE IF f.name = "referrer"
    THEN <<"and " \o ExpectedPredicate(f),
           "and (website_event.referrer_domain != {{websiteDomain}} or website_event.referrer_domain is null)">>
    ELSE <<"and " \o ExpectedPredicate(f)>>

RECURSIVE JoinedUpTo(_, _)
JoinedUpTo(lines, n) ==
    IF n = 0 THEN ""
    ELSE IF n = 1 THEN lines[1]
    ELSE JoinedUpTo(lines, n - 1) \o "\n" \o lines[n]

ExpectedFilterQuery(specs) ==
    LET lines == Flatten([k \in 1..Len(specs) |-> ExpectedLines(specs[k])])
    IN  JoinedUpTo(lines, Len(lines))

\* C6: every filter with a column gives one line, and <predicate>, from the
\* operator table (=, !=, the dialect's case-insensitive like, not like) with
\* the placeholder {{name}}, followed by the self-referrer exclusion exactly
\* when the filter is named referrer; a filter without a column gives no
\* line; and every filter binds params[name] to its value, wrapped in % ... %
\* exactly for contains and doesNotContain.
C6_FilterLinesAndParams ==
    ParseFiltersReturned =>
        LET specs == call.filters.specs
            result == outcome.value
        IN  /\ result.filterQuery = ExpectedFilterQuery(specs)
            /\ \A k \in 1..Len(specs) :
                  /\ Has(result.params, specs[k].name)
                  /\ result.params[specs[k].name] =
                        (IF specs[k].operator \in {OPERATORS.contains,
                                                   OPERATORS.doesNotContain}
                         THEN "%" \o specs[k].value \o "%"
                         ELSE specs[k].value)

\* The filter {name: referrer, column: referrer_domain, operator: contains,
\* value: x} alone, on PostgreSQL: two predicates and the parameter %x%.
C6_Witness ==
    /\ ParseFiltersReturned
    /\ db = POSTGRESQL
    /\ call.filters.specs = <<[name |-> "referrer", column |-> "referrer_domain",
                               operator |-> OPERATORS.contains, value |-> "x"]>>
    /\ outcome.value.filterQuery =
          "and referrer_domain ilike {{referrer}}\nand (website_event.referrer_domain != {{websiteDomain}} or website_event.referrer_domain is null)"
    /\ outcome.value.params["referrer"] = "%x%"

\* The later of the requested start and the reset, an absent one giving way.
ExpectedStartDate(requested, resetAt) ==
    CASE requested = NoDate -> resetAt
      [] requested # NoDate /\ resetAt = NoDate -> requested
      [] requested # NoDate /\ resetAt # NoDate ->
            IF requested[1] < resetAt[1] THEN resetAt ELSE requested

\* C7: params.startDate of the result is max(requested startDate, resetAt of
\* the website), an absent bound giving the other: an earlier request is
\* replaced by resetAt and a later one is kept; the value stands whatever
\* the filters bound under startDate; websiteId and websiteDomain are always
\* in params.
C7_StartDateClamped ==
    ParseFiltersReturned =>
        LET params == outcome.value.params
            website == Websites[call.websiteId]
        IN  /\ {"websiteId", "websiteDomain", "startDate"} \subseteq DOMAIN params
            /\ params["startDate"] =
                  ExpectedStartDate(call.filters.startDate, website.resetAt)
            /\ params["websiteId"] = call.websiteId
            /\ params["websiteDomain"] = website.domain

\* A start of 1 requested of a website reset at 2: the start bound is 2.
C7_Witness ==
    /\ ParseFiltersReturned
    /\ call.filters.startDate = <<1>>
    /\ Websites[call.websiteId].resetAt = <<2>>
    /\ outcome.value.params["startDate"] = <<2>>

\* C8: for a website the lookup cannot resolve, parseFilters fails with the
\* lookup's NotFound error and returns no fragment and no params.
C8_UnknownWebsiteFails ==
    (call.op = "parseFilters" /\ call.websiteId \notin DOMAIN Websites) =>
        /\ outcome.kind # "resolved"
        /\ pc = "done" => (outcome.kind = "rejected" /\ outcome.error = "NotFound")

C8_Witness ==
    /\ call.op = "parseFilters"
    /\ call.websiteId \notin DOMAIN Websites
    /\ Len(call.filters.specs) > 0
    /\ pc = "done"
    /\ outcome.kind = "rejected"
    /\ outcome.error = "NotFound"

-----------------------------------------------------------------------------
(* getDateSQL: the bucket text each dialect renders *)

MYSQL_DATE_FORMATS ==
    [minute |-> <<"%", "Y", "-", "%", "m", "-", "%", "d", "T", "%", "H", ":",
                  "%", "i", ":", "0", "0">>,
     hour   |-> <<"%", "Y", "-", "%", "m", "-", "%", "d", " ", "%", "H", ":",
                  "0", "0", ":", "0", "0">>,
     day    |-> <<"%", "Y", "-", "%", "m", "-", "%", "d", " ", "0", "0", ":",
                  "0", "0", ":", "0", "0">>,
     month  |-> <<"%", "Y", "-", "%", "m", "-", "0", "1", " ", "0", "0", ":",
                  "0", "0", ":", "0", "0">>,
     year   |-> <<"%", "Y", "-", "0", "1", "-", "0", "1", " ", "0", "0", ":",
                  "0", "0", ":", "0", "0">>]

POSTGRESQL_DATE_FORMATS ==
    [minute |-> <<"Y", "Y", "Y", "Y", "-", "M", "M", "-", "D", "D", " ",
                  "H", "H", "2", "4", ":", "M", "I", ":", "0", "0">>,
     hour   |-> <<"Y", "Y", "Y", "Y", "-", "M", "M", "-", "D", "D", " ",
                  "H", "H", "2", "4", ":", "0", "0", ":", "0", "0">>,
     day    |-> <<"Y", "Y", "Y", "Y", "-", "M", "M", "-", "D", "D", " ",
                  "H", "H", "2", "4", ":", "0", "0", ":", "0", "0">>,
     month  |-> <<"Y", "Y", "Y", "Y", "-", "M", "M", "-", "0", "1", " ",
                  "H", "H", "2", "4", ":", "0", "0", ":", "0", "0">>,
     year   |-> <<"Y", "Y", "Y", "Y", "-", "0", "1", "-", "0", "1", " ",
                  "H", "H", "2", "4", ":", "0", "0", ":", "0", "0">>]

Units == {"minute", "hour", "day", "month", "year"}

\* A number in two digits.
Pad2(n) == IF n < 10 THEN <<"0">> \o NatText(n) ELSE NatText(n)

StartsAt(s, i, part) ==
    /\ i + Len(part) - 1 <= Len(s)
    /\ SubSeq(s, i, i + Len(part) - 1) = part

\* date_trunc(unit, ts) of PostgreSQL.
DateTrunc(unit, ts) ==
    CASE unit = "minute" -> [ts EXCEPT !.second = 0]
      [] unit = "hour" -> [ts EXCEPT !.second = 0, !.minute = 0]
      [] unit = "day" -> [ts EXCEPT !.second = 0, !.minute = 0, !.hour = 0]
      [] unit = "month" ->
            [ts EXCEPT !.second = 0, !.minute = 0, !.hour = 0, !.day = 1]
      [] unit = "year" ->
            [ts EXCEPT !.second = 0, !.minute = 0, !.hour = 0, !.day = 1, !.month = 1]

\* to_char(ts, format) of PostgreSQL, from index i of the format: YYYY, MM,
\* DD, HH24 and MI are template patterns, any other character is itself.
RECURSIVE ToChar(_, _, _)
ToChar(ts, format, i) ==
    IF i > Len(format) THEN <<>>
    ELSE IF StartsAt(format, i, <<"Y", "Y", "Y", "Y">>)
         THEN NatText(ts.year) \o ToChar(ts, format, i + 4)
    ELSE IF StartsAt(format, i, <<"H", "H", "2", "4">>)
         THEN Pad2(ts.hour) \o ToChar(ts, format, i + 4)
    ELSE IF StartsAt(format, i, <<"M", "M">>)
         THEN Pad2(ts.month) \o ToChar(ts, format, i + 2)
    ELSE IF StartsAt(format, i, <<"M", "I">>)
         THEN Pad2(ts.minute) \o ToChar(ts, format, i + 2)
    ELSE IF StartsAt(format, i, <<"D", "D">>)
         THEN Pad2(ts.day) \o ToChar(ts, format, i + 2)
    ELSE <<format[i]>> \o ToChar(ts, format, i + 1)

\* date_format(ts, format) of MySQL, from index i of the format: %Y, %m, %d,
\* %H and %i are specifiers, any other character is itself.
RECURSIVE DateFormat(_, _, _)
DateFormat(ts, format, i) ==
    IF i > Len(format) THEN <<>>
    ELSE IF StartsAt(format, i, <<"%", "Y">>)
         THEN NatText(ts.year) \o DateFormat(ts, format, i + 2)
    ELSE IF StartsAt(format, i, <<"%", "m">>)
         THEN Pad2(ts.month) \o DateFormat(ts, format, i + 2)
    ELSE IF StartsAt(format, i, <<"%", "d">>)
         THEN Pad2(ts.day) \o DateFormat(ts, format, i + 2)
    ELSE IF StartsAt(format, i, <<"%", "H">>)
         THEN Pad2(ts.hour) \o DateFormat(ts, format, i + 2)
    ELSE IF StartsAt(format, i, <<"%", "i">>)
         THEN Pad2(ts.minute) \o DateFormat(ts, format, i + 2)
    ELSE <<format[i]>> \o DateFormat(ts, format, i + 1)

\* The value of the expression getDateSQL(field, unit) builds, for a field
\* that holds ts (with a timezone, ts is the field moved to that zone):
\* to_char(date_trunc(unit, field), format) on PostgreSQL and
\* date_format(field, format) on MySQL; no expression on another dialect.
DateSQLValue(dialect, unit, ts) ==
    IF dialect = POSTGRESQL
    THEN ToChar(DateTrunc(unit, ts), POSTGRESQL_DATE_FORMATS[unit], 1)
    ELSE IF dialect = MYSQL
    THEN DateFormat(ts, MYSQL_DATE_FORMATS[unit], 1)
    ELSE UndefinedText

Timestamps ==
    [year : {1999, 2024}, month : {1, 11}, day : {1, 28}, hour : {0, 9, 23},
     minute : {0, 5, 59}, second : {0, 30}]

\* getDateSQL(field, unit) evaluated by the data store on a row.
GetDateSQL(unit, ts) ==
    /\ pc = "idle"
    /\ call' = [op |-> "getDateSQL", unit |-> unit, ts |-> ts]
    /\ outcome' = Resolved(DateSQLValue(db, unit, ts))
    /\ pc' = "done"
    /\ UNCHANGED <<db, local, executions, store>>

NextDate ==
    /\ pc = "idle"
    /\ \E unit \in Units, ts \in Timestamps : GetDateSQL(unit, ts)

SpecDate == InitIdle /\ [][NextDate]_vars

\* C9: for each of the five units the bucket text is the same on both
\* dialects: what this dialect rendered for a timestamp is what the other
\* dialect renders for it.
C9_SameTextOnBothDialects ==
    call.op = "getDateSQL" =>
        /\ db = POSTGRESQL =>
              outcome.value = DateSQLValue(MYSQL, call.unit, call.ts)
        /\ db = MYSQL =>
              outcome.value = DateSQLValue(POSTGRESQL, call.unit, call.ts)

\* The two dialects do agree on every unit but minute.
DateTextAgreesButForMinute ==
    (call.op = "getDateSQL" /\ call.unit # "minute") =>
        DateSQLValue(MYSQL, call.unit, call.ts)
            = DateSQLValue(POSTGRESQL, call.unit, call.ts)

\* minute on MySQL has the T the claim names; PostgreSQL renders a space.
C9_FailingInput ==
      /\ call.op = "getDateSQL"
      /\ call.unit = "minute"
      /\ call.ts = [year |-> 2024, month |-> 11, day |-> 28, hour |-> 9,
                    minute |-> 5, second |-> 30]
      /\ db = MYSQL
      /\ outcome.value = <<"2", "0", "2", "4", "-", "1", "1", "-", "2", "8", "T",
                           "0", "9", ":", "0", "5", ":", "0", "0">>
      /\ DateSQLValue(POSTGRESQL, call.unit, call.ts)
            = <<"2", "0", "2", "4", "-", "1", "1", "-", "2", "8", " ",
                "0", "9", ":", "0", "5", ":", "0", "0">>

====
